---- MODULE Spec2Model ----
(***************************************************************************)
(* handlerExceptions (lib/handler-exceptions.js): an Express handler       *)
(* wrapped so that matched exceptions of the handler are tallied in Redis  *)
(* and further requests of the partition are answered with 429 once the    *)
(* tally has reached the limit.                                            *)
(*                                                                         *)
(* One action per asynchronous step of the code: a request arrives         *)
(* (redis.get is sent); the store serves the GET and the get callback runs  *)
(* (gate, handler call, catch, MULTI sent); the store executes the MULTI    *)
(* batch atomically and the exec callback runs (self-healing EXPIRE sent,   *)
(* next(error)); the store serves the out-of-band EXPIRE; a second passes   *)
(* at the store (key expiry).  A callback reads nothing but its reply and   *)
(* the options, so the store serving a command and the callback of its      *)
(* reply are one step; the gap between a request's GET and its MULTI, and   *)
(* between the MULTI and the EXPIRE, is kept.                               *)
(***************************************************************************)
EXTENDS Integers, Sequences, FiniteSets, TLC

\* ---------------------------------------------------------------- bounds
MaxRequests == 2      \* requests issued in one behaviour
MaxInFlight == 2      \* requests being handled at the same time
MaxTime     == 1      \* seconds that pass at the store in one behaviour
MaxLimit    == 1      \* opts.limit() ranges over 1..MaxLimit
MaxWindow   == 1      \* opts.window() ranges over 1..MaxWindow (seconds)

Requests      == 1..MaxRequests
PartitionKeys == {"b", "c"}                    \* values of opts.key(request)
Throws        == {"none", "Error", "CustomError"}  \* what the handler does

\* ------------------------------------------------------------- key codec
\* a primary key that leaves the partition key out
realKeyShared(key) == "ratelimit:{}"

realKey(key) == "ratelimit:{" \o key \o "}"
\* the transient key told apart from the primary key inside the braces
tempKeyInfix(key) == "ratelimit:{temp" \o key \o "}"
tempKey(key) == "ratelimittemp:{" \o key \o "}"
StoreKeys    == {realKey(k) : k \in PartitionKeys} \cup {tempKey(k) : k \in PartitionKeys}

\* ------------------------------------------------- decimal strings (JS)
\* Redis replies to GET with the decimal text of the value; the code reads
\* it back with parseInt(x, 10).  Text is a sequence of characters.
Digits == <<"0", "1", "2", "3", "4", "5", "6", "7", "8", "9">>

RECURSIVE NatToStr(_)
NatToStr(n) == IF n < 10 THEN <<Digits[n + 1]>>
               ELSE NatToStr(n \div 10) \o <<Digits[(n % 10) + 1]>>

IntToStr(n) == IF n < 0 THEN <<"-">> \o NatToStr(-n) ELSE NatToStr(n)

DigitVal(c) == CHOOSE d \in 0..9 : Digits[d + 1] = c

RECURSIVE ParseDigits(_, _)
ParseDigits(s, acc) == IF s = <<>> THEN acc
                       ELSE ParseDigits(Tail(s), acc * 10 + DigitVal(Head(s)))

parseInt(s) == IF Head(s) = "-" THEN -ParseDigits(Tail(s), 0) ELSE ParseDigits(s, 0)

\* ------------------------------------------------------------ the store
\* A key is absent, or holds an integer with a time to live in seconds
\* (ttl = -1: the key has no expiry).
Absent == [exists |-> FALSE, val |-> 0, ttl |-> 0]

\* SET key value: no expiry
set(s, k, seconds, v) == [s EXCEPT ![k] = [exists |-> TRUE, val |-> v, ttl |-> -1]]

\* SETEX key seconds value
setex(s, k, seconds, v) == [s EXCEPT ![k] = [exists |-> TRUE, val |-> v, ttl |-> seconds]]

\* RENAME src dst: overwrites dst
rename(s, src, dst) == [s EXCEPT ![dst] = s[src], ![src] = Absent]

\* RENAMENX with its arguments the wrong way round
renamenxSwapped(s, src, dst) == IF s[src].exists THEN s
                                ELSE [s EXCEPT ![src] = s[dst], ![dst] = Absent]

\* RENAMENX src dst: moves src to dst only if dst does not exist
renamenx(s, src, dst) == IF s[dst].exists THEN s
                         ELSE [s EXCEPT ![dst] = s[src], ![src] = Absent]

\* INCR that leaves the value as it was
incrNoop(s, k) == IF s[k].exists THEN s
                  ELSE [s EXCEPT ![k] = [exists |-> TRUE, val |-> 0, ttl |-> -1]]

\* INCR key: an absent key counts from 0 and is created without expiry
incr(s, k) == IF s[k].exists THEN [s EXCEPT ![k].val = @ + 1]
              ELSE [s EXCEPT ![k] = [exists |-> TRUE, val |-> 1, ttl |-> -1]]

\* TTL key: -2 if the key does not exist, -1 if it has no expiry
ttl(s, k) == IF ~s[k].exists THEN -2 ELSE s[k].ttl

\* GET key: null, or the decimal text of the value
Null == <<>>
get(s, k) == IF s[k].exists THEN IntToStr(s[k].val) ELSE Null

\* EXPIRE key 0: the key is deleted
expireNow(s, k, seconds) == [s EXCEPT ![k] = Absent]

\* EXPIRE key seconds: no effect on an absent key
expire(s, k, seconds) == IF s[k].exists THEN [s EXCEPT ![k].ttl = seconds] ELSE s

\* one second passes: expiries come one second nearer, due keys vanish
AfterOneSecond(s) == [k \in DOMAIN s |->
                        IF s[k].exists /\ s[k].ttl = 1 THEN Absent
                        ELSE IF s[k].exists /\ s[k].ttl > 1
                             THEN [s[k] EXCEPT !.ttl = @ - 1]
                             ELSE s[k]]

\* the batch with INCR ahead of the SETEX and the RENAMENX
multiIncrFirst(s, key, window) ==
    LET s1 == incr(s, realKey(key))
        s2 == setex(s1, tempKey(key), window, 0)
        s3 == renamenx(s2, tempKey(key), realKey(key))
    IN  [store |-> s3, ttlReply |-> ttl(s3, realKey(key))]

\* the MULTI of incrementErrors, executed as one indivisible batch
multi(s, key, window) ==
    LET s1 == setex(s, tempKey(key), window, 0)
        s2 == renamenx(s1, tempKey(key), realKey(key))
        s3 == incr(s2, realKey(key))
    IN  [store |-> s3, ttlReply |-> ttl(s3, realKey(key))]

\* ------------------------------------------------------------ the state
VARIABLES
    opts,      \* the canonical options of the wrapper, fixed at construction
    store,     \* the Redis keyspace: store key -> entry
    req,       \* request id -> the request/response pair and its position
    now,       \* seconds elapsed at the store
    expired,   \* history: partitions whose primary key has expired
    peak,      \* history: partition -> most requests in flight at once
    foreign,   \* history: another client of the store has written to it
    given,     \* the arguments of the call that set things up
    built      \* how that call ended, once it has

vars == <<opts, store, req, now, expired, peak, foreign, given, built>>

\* a request that has not arrived yet
Idle == [pc |-> "idle", key |-> "", throws |-> "none",
         redisError |-> FALSE, results |-> Null,
         status |-> 0, body |-> "", ended |-> FALSE,
         handlerCalls |-> 0, nexts |-> <<>>, logs |-> 0,
         multis |-> 0, execError |-> FALSE, ttlReply |-> 0,
         expires |-> 0, expirePc |-> "none"]

InFlight(r)   == req[r].pc \notin {"idle", "done"}
InFlightOn(k) == {r \in Requests : InFlight(r) /\ req[r].key = k}

Max(a, b) == IF a >= b THEN a ELSE b

\* ------------------------------------------------- options (JavaScript)
\* A JavaScript value is its typeof and a name for what it is.  NoKey is a
\* key the options object does not have (hasOwnProperty is false).
NoKey     == [type |-> "nokey", val |-> ""]
Undefined == [type |-> "undefined", val |-> ""]
JsNull    == [type |-> "object", val |-> "null"]
Fn(name)  == [type |-> "function", val |-> name]
Str(text) == [type |-> "string", val |-> text]
True      == [type |-> "boolean", val |-> "true"]
False     == [type |-> "boolean", val |-> "false"]
Zero      == [type |-> "number", val |-> "0"]

OptionKeys == {"errorMatcher", "errorMessage", "shouldRateLimit", "logger"}

defaultHandlerExceptionsOpts ==
    [errorMatcher    |-> Fn("alwaysTrue"),
     errorMessage    |-> Str("Too Many Errors"),
     shouldRateLimit |-> True,
     logger          |-> Fn("console.log")]

\* validators[key](v): TRUE when the assert passes
validators(key, v) ==
    CASE key = "errorMatcher"    -> v.type = "function"
      [] key = "errorMessage"    -> v.type = "string"
      [] key = "shouldRateLimit" -> v.type = "boolean"
      [] key = "logger"          -> v.type = "function" \/ v = False

\* opts.hasOwnProperty(key) && opts[key] != null
hasValue(v) == v # NoKey /\ v # Undefined /\ v # JsNull

\* JavaScript truthiness of the values above
truthy(v) == v \notin {NoKey, Undefined, JsNull, False, Zero, Str("")}

\* how a call ends: an assert threw, or it returned these options
NoOptions       == [key \in OptionKeys |-> NoKey]
Threw           == [state |-> "threw", opts |-> NoOptions]
Returned(canon) == [state |-> "returned", opts |-> canon]

\* handlerExceptionsOptsCanonical taking `if (opts[key])` for `!= null`
handlerExceptionsOptsCanonicalTruthy(o) ==
    LET o1 == IF o.logger = False THEN [o EXCEPT !.logger = Fn("noop")] ELSE o
    IN  IF \E key \in OptionKeys : truthy(o1[key]) /\ ~validators(key, o1[key])
        THEN Threw
        ELSE Returned([key \in OptionKeys |->
                IF truthy(o1[key]) THEN o1[key] ELSE defaultHandlerExceptionsOpts[key]])

\* handlerExceptionsOptsCanonical(opts)
handlerExceptionsOptsCanonical(o) ==
    LET o1 == IF o.logger = False THEN [o EXCEPT !.logger = Fn("noop")] ELSE o
    IN  IF \E key \in OptionKeys : hasValue(o1[key]) /\ ~validators(key, o1[key])
        THEN Threw
        ELSE Returned([key \in OptionKeys |->
                IF hasValue(o1[key]) THEN o1[key] ELSE defaultHandlerExceptionsOpts[key]])

\* module.exports(opts, handler) up to `return function ...`: it threw, or
\* it returned a handler that closes over the canonical options
handlerExceptions(o, handler) ==
    LET canonical == handlerExceptionsOptsCanonical(o)
    IN  IF canonical.state = "threw" THEN Threw
        ELSE IF handler.type # "function" THEN Threw
        ELSE canonical

\* the options of the returned handler, as the request code reads them;
\* limit and window come from the rate option
closure(canonical, limit, window) ==
    [limit           |-> limit,
     window          |-> window,
     shouldRateLimit |-> canonical.shouldRateLimit = True,
     errorMatcher    |-> canonical.errorMatcher.val,
     errorMessage    |-> canonical.errorMessage.val,
     logger          |-> canonical.logger.val]

\* ---------------------------------------------------- the wrapper's code
\* an error matcher that counts every error, whatever the option says
errorMatcherAny(o, error) == TRUE

\* opts.errorMatcher(error): the default (alwaysTrue) matches everything, the
\* other one is `error instanceof CustomError`

errorMatcher(o, error) == IF o.errorMatcher = "alwaysTrue" THEN TRUE
                          ELSE error = "CustomError"

\* next(arg) of Express; "" stands for next() without argument
next(q, arg) == [q EXCEPT !.nexts = Append(@, arg), !.pc = "done"]

\* the handler when it does not throw: okResponse
okResponse(q) == [q EXCEPT !.status = 200, !.body = "ok", !.ended = TRUE, !.pc = "done"]

\* incrementErrors up to .exec(...): the MULTI batch is sent
incrementErrors(q) == [q EXCEPT !.multis = @ + 1, !.pc = "multi"]

\* callHandler with next(error) not waiting for the tally
callHandlerEager(q, o) ==
    LET q1 == [q EXCEPT !.handlerCalls = @ + 1]
    IN  IF q.throws = "none" THEN okResponse(q1)
        ELSE IF errorMatcher(o, q.throws)
             THEN [incrementErrors(q1) EXCEPT !.nexts = Append(@, q.throws)]
             ELSE next(q1, q.throws)

\* callHandler tallying the calls that do not throw as well
callHandlerCountAll(q, o) ==
    LET q1 == [q EXCEPT !.handlerCalls = @ + 1]
    IN  IF q.throws = "none" THEN incrementErrors(okResponse(q1))
        ELSE IF errorMatcher(o, q.throws) THEN incrementErrors(q1)
             ELSE next(q1, q.throws)

\* callHandler: try { handler(...) } catch (error) { ... }
callHandler(q, o) ==
    LET q1 == [q EXCEPT !.handlerCalls = @ + 1]
    IN  IF q.throws = "none" THEN okResponse(q1)
        ELSE IF errorMatcher(o, q.throws) THEN incrementErrors(q1)
             ELSE next(q1, q.throws)

\* the comparison of the gate
overLimitStrict(current, o) == current > o.limit

overLimit(current, o) == current >= o.limit

\* the 429 branch without its return: the handler is called all the same
rejectFallThrough(q, o) ==
    callHandler([q EXCEPT !.status = 429, !.body = o.errorMessage, !.ended = TRUE], o)

\* response.status(429); response.send(errorMessage); return response.end()
reject(q, o) == [q EXCEPT !.status = 429, !.body = o.errorMessage,
                          !.ended = TRUE, !.pc = "done"]

\* the callback of redis.get, failing closed: next(redisError)
getCallbackFailClosed(q, o) ==
    IF q.redisError THEN next(q, "redisError")
    ELSE LET current == IF q.results = Null THEN 0 ELSE parseInt(q.results)
             q1      == IF overLimit(current, o) THEN [q EXCEPT !.logs = @ + 1] ELSE q
         IN  IF overLimit(current, o) /\ o.shouldRateLimit THEN reject(q1, o)
             ELSE callHandler(q1, o)

\* the callback of redis.get, logging only the rejections
getCallbackLogOnReject(q, o) ==
    IF q.redisError THEN next(q, "")
    ELSE LET current == IF q.results = Null THEN 0 ELSE parseInt(q.results)
         IN  IF overLimit(current, o) /\ o.shouldRateLimit
             THEN reject([q EXCEPT !.logs = @ + 1], o)
             ELSE callHandler(q, o)

\* the callback of redis.get
getCallback(q, o) ==
    IF q.redisError THEN next(q, "")
    ELSE LET current == IF q.results = Null THEN 0 ELSE parseInt(q.results)
             q1      == IF overLimit(current, o) THEN [q EXCEPT !.logs = @ + 1] ELSE q
         IN  IF overLimit(current, o) /\ o.shouldRateLimit THEN reject(q1, o)
             ELSE callHandler(q1, o)

\* the callback of .exec handing the store's error on: next(redisError)
execCallbackSurfacing(q, o) ==
    LET q1 == IF ~q.execError /\ parseInt(IntToStr(q.ttlReply)) = -1
              THEN [q EXCEPT !.expires = @ + 1, !.expirePc = "sent"]
              ELSE q
    IN  next(q1, IF q.execError THEN "redisError" ELSE q.throws)

\* the callback of .exec sending EXPIRE after every batch that succeeded
execCallbackAlwaysExpire(q, o) ==
    LET q1 == IF ~q.execError
              THEN [q EXCEPT !.expires = @ + 1, !.expirePc = "sent"]
              ELSE q
    IN  next(q1, q.throws)

\* the callback of .exec: console.error or the self-healing EXPIRE, then
\* callback(), which is function() { next(error); }
execCallback(q, o) ==
    LET q1 == IF ~q.execError /\ parseInt(IntToStr(q.ttlReply)) = -1
              THEN [q EXCEPT !.expires = @ + 1, !.expirePc = "sent"]
              ELSE q
    IN  next(q1, q.throws)

\* ----------------------------------------------------------------- Init
\* the options the served configurations are built from: an error matcher
\* or none, a custom message, log-only or not, the logger switched off
ServedOptions ==
    [errorMatcher    : {NoKey, Fn("isCustomError")},
     errorMessage    : {Str("Oh noes")},
     shouldRateLimit : {NoKey, False},
     logger          : {False}]

\* the state all specifications start from, but for opts, given and built
Quiet ==
    /\ store = [k \in StoreKeys |-> Absent]
    /\ req = [r \in Requests |-> Idle]
    /\ now = 0
    /\ expired = {}
    /\ peak = [k \in PartitionKeys |-> 0]
    /\ foreign = FALSE

Init ==
    /\ given \in [opts : ServedOptions, handler : {Fn("handler")},
                  limit : 1..MaxLimit, window : 1..MaxWindow]
    /\ built = handlerExceptions(given.opts, given.handler)
    /\ built.state = "returned"
    /\ opts = closure(built.opts, given.limit, given.window)
    /\ Quiet

\* -------------------------------------------------------------- actions
\* A request arrives: key = opts.key(request), redis.get(realKey, ...) is sent.
\* Requests are numbered in order of arrival, and the partitions are named
\* in order of first use ("c" is the partition that is not the first one).
Arrive(r, k, t) ==
    /\ req[r].pc = "idle"
    /\ k = "c" => \E q \in Requests : req[q].key = "b"
    /\ \A q \in Requests : q < r => req[q].pc # "idle"
    /\ Cardinality({q \in Requests : InFlight(q)}) < MaxInFlight
    /\ req' = [req EXCEPT ![r] = [Idle EXCEPT !.pc = "get", !.key = k, !.throws = t]]
    /\ peak' = [peak EXCEPT ![k] = Max(@, Cardinality(InFlightOn(k)) + 1)]
    /\ UNCHANGED <<opts, store, now, expired, foreign, given, built>>

\* the store serves the GET and the reply reaches the callback of redis.get
GetReply(r) ==
    /\ req[r].pc = "get"
    /\ LET q == [req[r] EXCEPT !.results = get(store, realKey(req[r].key))]
       IN  req' = [req EXCEPT ![r] = getCallback(q, opts)]
    /\ UNCHANGED <<opts, store, now, expired, peak, foreign, given, built>>

\* the GET fails at the store or on the way: the callback gets redisError
GetError(r) ==
    /\ req[r].pc = "get"
    /\ LET q == [req[r] EXCEPT !.redisError = TRUE]
       IN  req' = [req EXCEPT ![r] = getCallback(q, opts)]
    /\ UNCHANGED <<opts, store, now, expired, peak, foreign, given, built>>

\* the store executes the MULTI batch, all four commands at once, and the
\* replies reach the callback of .exec
ExecReply(r) ==
    /\ req[r].pc = "multi"
    /\ LET m == multi(store, req[r].key, opts.window)
           q == [req[r] EXCEPT !.ttlReply = m.ttlReply]
       IN  /\ store' = m.store
           /\ req' = [req EXCEPT ![r] = execCallback(q, opts)]
    /\ UNCHANGED <<opts, now, expired, peak, foreign, given, built>>

\* the batch fails, nothing of it is executed: the callback gets redisError
ExecError(r) ==
    /\ req[r].pc = "multi"
    /\ LET q == [req[r] EXCEPT !.execError = TRUE]
       IN  req' = [req EXCEPT ![r] = execCallback(q, opts)]
    /\ UNCHANGED <<opts, store, now, expired, peak, foreign, given, built>>

\* the store serves the out-of-band EXPIRE; its reply has no callback
ExpireExec(r) ==
    /\ req[r].expirePc = "sent"
    /\ store' = expire(store, realKey(req[r].key), opts.window)
    /\ req' = [req EXCEPT ![r].expirePc = "served"]
    /\ UNCHANGED <<opts, now, expired, peak, foreign, given, built>>

ExpireFail(r) ==
    /\ req[r].expirePc = "sent"
    /\ req' = [req EXCEPT ![r].expirePc = "failed"]
    /\ UNCHANGED <<opts, store, now, expired, peak, foreign, given, built>>

\* one second passes at the store while some key has an expiry
Tick ==
    /\ now < MaxTime
    /\ \E k \in StoreKeys : store[k].exists /\ store[k].ttl > 0
    /\ now' = now + 1
    /\ store' = AfterOneSecond(store)
    /\ expired' = expired \cup {k \in PartitionKeys :
                                  store[realKey(k)].exists /\ store[realKey(k)].ttl = 1}
    /\ UNCHANGED <<opts, req, peak, foreign, given, built>>

\* another client of the shared store removes the expiry of a counter, once
\* (the situation the self-healing EXPIRE of the exec callback is for)
ForeignPersist(k) ==
    /\ ~foreign
    /\ store[realKey(k)].exists
    /\ store[realKey(k)].ttl > 0
    /\ store' = [store EXCEPT ![realKey(k)].ttl = -1]
    /\ foreign' = TRUE
    /\ UNCHANGED <<opts, req, now, expired, peak, given, built>>

Next ==
    \/ \E r \in Requests, k \in PartitionKeys, t \in Throws : Arrive(r, k, t)
    \/ \E r \in Requests : GetReply(r)
    \/ \E r \in Requests : GetError(r)
    \/ \E r \in Requests : ExecReply(r)
    \/ \E r \in Requests : ExecError(r)
    \/ \E r \in Requests : ExpireExec(r)
    \/ \E r \in Requests : ExpireFail(r)
    \/ Tick
    \/ \E k \in PartitionKeys : ForeignPersist(k)

Spec == Init /\ [][Next]_vars

\* ------------------------------------------- construction, on its own
\* what a caller may pass for an option, and for the handler
GivenValues   == {NoKey, Undefined, JsNull, Fn("f"), Str("Oh noes"), Str(""),
                  True, False, Zero}
HandlerValues == {Fn("handler"), Undefined, JsNull, Str("Oh noes")}

Pending == [state |-> "pending", opts |-> NoOptions]

InitSetup ==
    /\ given \in [opts : [OptionKeys -> GivenValues], handler : HandlerValues,
                  limit : {1}, window : {1}]
    /\ built = Pending
    /\ opts = closure(NoOptions, given.limit, given.window)
    /\ Quiet

\* handlerExceptions(opts, handler) is called
Construct ==
    /\ built = Pending
    /\ built' = handlerExceptions(given.opts, given.handler)
    /\ opts' = IF built'.state = "returned"
               THEN closure(built'.opts, given.limit, given.window)
               ELSE opts
    /\ UNCHANGED <<store, req, now, expired, peak, foreign, given>>

SpecSetup == InitSetup /\ [][Construct]_vars

\* ------------------------------------------------ vocabulary of claims
Gated(r)     == req[r].pc \in {"multi", "done"}       \* the get callback has run
Done(r)      == req[r].pc = "done"
Rejected(r)  == req[r].status = 429
Observed(r)  == IF req[r].results = Null THEN 0 ELSE parseInt(req[r].results)
CounterValue(k) == IF store[realKey(k)].exists THEN store[realKey(k)].val ELSE 0

\* the handler of r throws, and the error matcher says yes / says no
ThrowsMatched(r)   == \/ req[r].throws = "CustomError"
                      \/ req[r].throws = "Error" /\ opts.errorMatcher = "alwaysTrue"
ThrowsUnmatched(r) == req[r].throws = "Error" /\ opts.errorMatcher = "isCustomError"

On(k)            == {r \in Requests : req[r].pc # "idle" /\ req[r].key = k}
NoStoreErrorOn(k) == \A r \in On(k) : ~req[r].redisError /\ ~req[r].execError
\* requests of k whose increment batch the store has executed
Counted(k)       == {r \in On(k) : req[r].multis > 0 /\ Done(r) /\ ~req[r].execError}

\* C1: on a partition whose key has not expired and whose batches have not
\* failed, the primary counter is exactly the number of increment batches
\* completed so far, whatever the interleaving: none lost, none doubled.
C1_ExactCount ==
    \A k \in PartitionKeys :
        (k \notin expired /\ \A r \in On(k) : ~req[r].execError)
            => CounterValue(k) = Cardinality({r \in On(k) : req[r].multis > 0 /\ Done(r)})

\* two increments that raced on a fresh partition (both gates saw no key),
\* both completed
C1_Witness ==
    \E k \in PartitionKeys : \E r1, r2 \in On(k) :
        /\ r1 # r2 /\ k \notin expired
        /\ Done(r1) /\ Done(r2) /\ req[r1].multis = 1 /\ req[r2].multis = 1
        /\ ~req[r1].execError /\ ~req[r2].execError
        /\ req[r1].results = Null /\ req[r2].results = Null
        /\ ~req[r1].redisError /\ ~req[r2].redisError
        /\ CounterValue(k) = 2

\* C2: blocking mode, requests of the partition one after another, one
\* window, no store error: a request is rejected with 429 exactly when
\* `limit` matched errors were counted before it, and a matched error below
\* that reaches the handler and is propagated.
CountedBefore(r) == {q \in On(req[r].key) : q < r /\ ThrowsMatched(q) /\ req[q].handlerCalls = 1}

C2_BlocksAfterLimit ==
    \A r \in Requests :
        (/\ Gated(r) /\ opts.shouldRateLimit
         /\ peak[req[r].key] <= 1 /\ req[r].key \notin expired
         /\ NoStoreErrorOn(req[r].key))
        => /\ Rejected(r) <=> Cardinality(CountedBefore(r)) >= opts.limit
           /\ Rejected(r) => req[r].handlerCalls = 0
           /\ (~Rejected(r) /\ ThrowsMatched(r))
                 => /\ req[r].handlerCalls = 1
                    /\ Done(r) => req[r].nexts = <<req[r].throws>>

\* the partition's first `limit` requests threw matched errors that were
\* propagated, and the request after them got 429
C2_Witness ==
    \E r \in Requests :
        /\ opts.shouldRateLimit /\ Cardinality(On(req[r].key)) = opts.limit + 1
        /\ \A q \in On(req[r].key) : Done(q) /\ ThrowsMatched(q)
        /\ \A q \in On(req[r].key) \ {r} : q < r /\ req[q].nexts = <<req[q].throws>>
        /\ peak[req[r].key] = 1 /\ req[r].key \notin expired /\ NoStoreErrorOn(req[r].key)
        /\ Rejected(r)

\* C3: an unmatched error makes the wrapper send no write to the store (no
\* batch, no EXPIRE) and is handed to next exactly once, unchanged.
C3_UnmatchedNotCounted ==
    \A r \in Requests :
        (ThrowsUnmatched(r) /\ req[r].handlerCalls > 0)
            => /\ req[r].multis = 0 /\ req[r].expires = 0
               /\ Done(r) /\ req[r].nexts = <<req[r].throws>>

C3_Witness ==
    \E r \in Requests :
        /\ ThrowsUnmatched(r) /\ req[r].handlerCalls = 1 /\ Done(r)
        /\ req[r].nexts = <<"Error">>
        /\ ~store[realKey(req[r].key)].exists

\* C4 as claimed: a request whose handler would raise an unmatched error is
\* never answered with 429.
C4_UnmatchedNeverBlocked ==
    \A r \in Requests : ThrowsUnmatched(r) => ~Rejected(r)

\* C4 amended: such a request is answered with 429 only in blocking mode
\* and only when at least `limit` matched failures of its partition have
\* been counted; unmatched errors, however many, never block it.
C4_UnmatchedBlockedOnlyByMatched ==
    \A r \in Requests :
        (ThrowsUnmatched(r) /\ Rejected(r))
            => /\ opts.shouldRateLimit
               /\ Cardinality({q \in Counted(req[r].key) : ThrowsMatched(q)}) >= opts.limit

\* unmatched errors alone, at volume, leave the last one unblocked, and an
\* unmatched one is blocked after a matched one
C4_Witness ==
    /\ opts.limit = 1 /\ opts.shouldRateLimit
    /\ ThrowsMatched(1) /\ Done(1) /\ ThrowsUnmatched(2) /\ Rejected(2)
    /\ req[2].key = req[1].key

\* C5: a gate read that observes count >= limit in blocking mode ends the
\* request with status 429 and the configured message; the handler is not
\* invoked, next is not called and nothing is written to the store for it.
C5_RejectionIsInert ==
    \A r \in Requests :
        (/\ Gated(r) /\ ~req[r].redisError
         /\ opts.shouldRateLimit /\ Observed(r) >= opts.limit)
            => /\ Done(r) /\ req[r].status = 429 /\ req[r].body = opts.errorMessage
               /\ req[r].ended
               /\ req[r].handlerCalls = 0 /\ req[r].nexts = <<>>
               /\ req[r].multis = 0 /\ req[r].expires = 0

\* a request whose handler would throw a matched error was rejected and the
\* counter still holds what the gate observed
C5_Witness ==
    \E r \in Requests :
        /\ Rejected(r) /\ req[r].throws = "CustomError" /\ req[r].body = "Oh noes"
        /\ Observed(r) = opts.limit /\ CounterValue(req[r].key) = Observed(r)

\* C6: in log-only mode no request gets 429; a request that observes
\* count >= limit still has the handler invoked (a matched failure is still
\* tallied) and logs exactly once, one that observes less logs nothing.
C6_LogOnly ==
    ~opts.shouldRateLimit =>
        \A r \in Requests :
            /\ ~Rejected(r)
            /\ (Gated(r) /\ ~req[r].redisError)
                 => /\ req[r].handlerCalls = 1
                    /\ req[r].logs = IF Observed(r) >= opts.limit THEN 1 ELSE 0
                    /\ ThrowsMatched(r) => req[r].multis = 1

\* log-only: a matched failure above the limit was invoked, logged once and
\* counted; another request below the limit logged nothing
C6_Witness ==
    /\ ~opts.shouldRateLimit
    /\ \E r, q \in Requests :
        /\ Done(r) /\ Observed(r) >= opts.limit /\ ThrowsMatched(r)
        /\ req[r].logs = 1 /\ req[r].handlerCalls = 1 /\ ~req[r].execError
        /\ CounterValue(req[r].key) > opts.limit
        /\ Done(q) /\ ~req[q].redisError /\ Observed(q) < opts.limit /\ req[q].logs = 0

\* C7: a store error on the gate's read fails open: no 429, and next is
\* called without an error argument.
C7_FailOpen ==
    \A r \in Requests :
        (Gated(r) /\ req[r].redisError)
            => /\ ~Rejected(r) /\ req[r].status = 0
               /\ req[r].nexts = <<"">>

\* the read failed although the partition was over its limit
C7_Witness ==
    \E r \in Requests :
        /\ Done(r) /\ req[r].redisError /\ req[r].nexts = <<"">>
        /\ opts.shouldRateLimit /\ CounterValue(req[r].key) >= opts.limit

\* C8 as claimed: every request that is not rejected with 429 has the
\* protected handler invoked exactly once.
C8_AllowedInvokesHandler ==
    \A r \in Requests : (Gated(r) /\ ~Rejected(r)) => req[r].handlerCalls = 1

\* C9: a matched error is handed to next only once the callback of the
\* request's increment batch has fired; never with the batch unsent or in
\* flight.
C9_CountBeforePropagate ==
    \A r \in Requests :
        (ThrowsMatched(r) /\ req[r].handlerCalls > 0 /\ req[r].nexts # <<>>)
            => /\ req[r].multis = 1
               /\ req[r].pc # "multi"
               /\ req[r].nexts = <<req[r].throws>>

\* some request's batch is in flight and nothing is propagated yet; another
\* one has propagated after its batch
C9_Witness ==
    \E r, q \in Requests :
        /\ req[r].pc = "multi" /\ req[r].nexts = <<>>
        /\ Done(q) /\ req[q].multis = 1 /\ req[q].nexts = <<req[q].throws>>

\* C10: when the increment batch fails at the store, the exec callback
\* passes the handler's own error to next, once; no batch is sent again, no
\* EXPIRE is sent, and the store is as it was.
C10_BatchFailureSwallowed ==
    [][\A r \in Requests :
          (req[r].pc = "multi" /\ req'[r].execError)
              => /\ req'[r].pc = "done"
                 /\ req'[r].nexts = <<req[r].throws>>
                 /\ req'[r].multis = 1 /\ req'[r].expires = 0
                 /\ store' = store]_vars

C10_Witness ==
    \E r \in Requests :
        /\ Done(r) /\ req[r].execError /\ req[r].nexts = <<req[r].throws>>
        /\ req[r].results = Null /\ ~store[realKey(req[r].key)].exists

\* a step of request r (its arrival, a reply to it, its EXPIRE served)
StepOf(r) == req'[r] # req[r]
\* the store executes a batch of partition k in this step
BatchOn(k) == \E r \in Requests :
                 /\ req[r].key = k /\ req[r].pc = "multi"
                 /\ req'[r].pc = "done" /\ ~req'[r].execError

\* C11: a step of a request of one partition leaves the primary and the
\* transient key of every other partition as they were, and a request is
\* only rejected when `limit` batches of its own partition were executed.
C11_PartitionsIsolated ==
    /\ [][\A r \in Requests :
             StepOf(r) => \A c \in PartitionKeys \ {req'[r].key} :
                             /\ store'[realKey(c)] = store[realKey(c)]
                             /\ store'[tempKey(c)] = store[tempKey(c)]]_vars
    /\ [](\A r \in Requests :
             Rejected(r) => Cardinality(Counted(req[r].key)) >= opts.limit)

\* partition b is at its limit, and a matched failure on c was let through
\* and counted as c's first
C11_Witness ==
    /\ opts.shouldRateLimit /\ CounterValue("b") >= opts.limit
    /\ \E r \in On("c") : /\ Done(r) /\ ThrowsMatched(r) /\ req[r].handlerCalls = 1
                          /\ ~req[r].execError
    /\ CounterValue("c") = 1

C13_TtlWithinWindow ==
    ~foreign =>
        \A k \in PartitionKeys :
            store[realKey(k)].exists
                => store[realKey(k)].ttl >= 1 /\ store[realKey(k)].ttl <= opts.window

\* two batches completed on a key, the second with a no-op RENAMENX
C13_Witness ==
    \E k \in PartitionKeys :
        /\ ~foreign /\ Cardinality(Counted(k)) = 2
        /\ store[realKey(k)].exists /\ store[realKey(k)].val = 2
        /\ store[realKey(k)].ttl = opts.window

\* C14 as claimed: between batches the transient key does not exist.
C14_TransientKeyGone ==
    \A k \in PartitionKeys : ~store[tempKey(k)].exists

\* C15: handlerExceptions(opts, handler) throws exactly when the handler is
\* not a function or an option that is present and not null has the wrong
\* type; otherwise absent and null options take their defaults, logger =
\* false becomes a no-op, and every other option is kept as given.
AbsentOrNull(v) == v \in {NoKey, Undefined, JsNull}

InvalidArguments ==
    \/ given.handler.type # "function"
    \/ ~AbsentOrNull(given.opts.errorMatcher) /\ given.opts.errorMatcher.type # "function"
    \/ ~AbsentOrNull(given.opts.errorMessage) /\ given.opts.errorMessage.type # "string"
    \/ ~AbsentOrNull(given.opts.shouldRateLimit)
          /\ given.opts.shouldRateLimit.type # "boolean"
    \/ ~AbsentOrNull(given.opts.logger)
          /\ given.opts.logger.type # "function" /\ given.opts.logger # False

C15_ValidatedAtConstruction ==
    built.state # "pending" =>
        /\ built.state = "threw" <=> InvalidArguments
        /\ built.state = "returned" =>
              /\ \A key \in OptionKeys \ {"logger"} :
                    built.opts[key] = IF AbsentOrNull(given.opts[key])
                                      THEN defaultHandlerExceptionsOpts[key]
                                      ELSE given.opts[key]
              /\ built.opts.logger = IF AbsentOrNull(given.opts.logger) THEN Fn("console.log")
                                     ELSE IF given.opts.logger = False THEN Fn("noop")
                                     ELSE given.opts.logger

\* a handler was returned for log-only mode with the logger switched off, no
\* matcher and a null message
C15_Witness ==
    /\ built.state = "returned"
    /\ given.opts.logger = False /\ built.opts.logger = Fn("noop")
    /\ given.opts.shouldRateLimit = False /\ ~opts.shouldRateLimit
    /\ given.opts.errorMatcher = NoKey /\ opts.errorMatcher = "alwaysTrue"
    /\ given.opts.errorMessage = JsNull /\ opts.errorMessage = "Too Many Errors"

\* C16: the get callback never changes the store, and a request whose
\* handler does not throw, or that is rejected, sends no batch and no
\* EXPIRE: it leaves the counter and its TTL as they were.
C16_GateNeverWrites ==
    /\ [][\A r \in Requests : (req[r].pc = "get" /\ StepOf(r)) => store' = store]_vars
    /\ [](\A r \in Requests :
             (Gated(r) /\ (req[r].throws = "none" \/ Rejected(r)))
                 => Done(r) /\ req[r].multis = 0 /\ req[r].expires = 0)

\* a request whose handler did not throw was answered 200 on a partition
\* whose counter stands at 1
C16_Witness ==
    \E r \in Requests :
        /\ Done(r) /\ req[r].throws = "none" /\ req[r].status = 200
        /\ req[r].handlerCalls = 1 /\ Observed(r) = 1
        /\ CounterValue(req[r].key) = 1

\* C17: a primary key's value changes only by +1, in the step that executes
\* a batch of its partition, and the key disappears only when a second
\* passes with its TTL at 1.
C17_OnlyIncrements ==
    [][\A k \in PartitionKeys :
          LET p == store[realKey(k)]
              n == store'[realKey(k)]
          IN  /\ BatchOn(k) => n.exists /\ n.val = (IF p.exists THEN p.val ELSE 0) + 1
              /\ (~BatchOn(k) /\ p.exists /\ n.exists) => n.val = p.val
              /\ (p.exists /\ ~n.exists) => now' = now + 1 /\ p.ttl = 1]_vars

\* a counted key is gone, by expiry
C17_Witness ==
    \E k \in expired : Counted(k) # {} /\ ~store[realKey(k)].exists

\* C18: a request sends EXPIRE exactly once when its batch succeeded with a
\* TTL reply of -1 and never otherwise; its error is passed to next whether
\* the EXPIRE is still in flight, was served or failed.
C18_SelfHealing ==
    \A r \in Requests :
        /\ (Done(r) /\ req[r].multis > 0)
              => /\ req[r].expires = IF ~req[r].execError /\ req[r].ttlReply = -1
                                     THEN 1 ELSE 0
                 /\ req[r].nexts = <<req[r].throws>>
        /\ ~Done(r) => req[r].expires = 0
        /\ req[r].multis = 0 => req[r].expires = 0
        /\ req[r].expirePc = "none" <=> req[r].expires = 0

\* the EXPIRE of a request failed after its error had been passed on, and
\* the key is still without expiry
C18_Witness ==
    \E r \in Requests :
        /\ Done(r) /\ req[r].ttlReply = -1 /\ req[r].expirePc = "failed"
        /\ req[r].nexts = <<req[r].throws>>
        /\ store[realKey(req[r].key)].ttl = -1

\* ---------------------------------------------------------------------
\* Key derivation over arbitrary partition-key strings
\* ---------------------------------------------------------------------
MaxKeyLen == 2

\* pieces of the derived keys themselves, so that a partition key can try
\* to imitate the prefix, the braces or the "temp" infix
KeyTokens == {"b", "c", "temp", "{", "}", ":", "ratelimit"}

RECURSIVE KeyStringsUpTo(_)
KeyStringsUpTo(n) ==
    IF n = 0 THEN {""}
    ELSE LET shorter == KeyStringsUpTo(n - 1)
         IN  shorter \cup {s \o t : s \in shorter, t \in KeyTokens}

KeyStrings == KeyStringsUpTo(MaxKeyLen)

\* two requests, their partition keys any strings
InitKeys ==
    /\ given \in [p : KeyStrings, q : KeyStrings]
    /\ built = [state |-> "pending", realKey |-> <<>>, tempKey |-> <<>>]
    /\ opts = closure(NoOptions, 1, 1)
    /\ Quiet

\* the handler derives the store keys of both requests
DeriveKeys ==
    /\ built.state = "pending"
    /\ built' = [state   |-> "derived",
                 realKey |-> <<realKey(given.p), realKey(given.q)>>,
                 tempKey |-> <<tempKey(given.p), tempKey(given.q)>>]
    /\ UNCHANGED <<opts, store, req, now, expired, peak, foreign, given>>

SpecKeys == InitKeys /\ [][DeriveKeys]_vars

\* C19: distinct partition keys give distinct primary keys and distinct
\* transient keys, and no primary key equals any transient key.
C19_KeysCollisionFree ==
    built.state = "derived" =>
        /\ given.p # given.q => /\ built.realKey[1] # built.realKey[2]
                                /\ built.tempKey[1] # built.tempKey[2]
        /\ \A i, j \in 1..2 : built.realKey[i] # built.tempKey[j]

\* one partition key is the other with "temp" put in front: the nearest
\* a partition key comes to another partition's transient key
C19_Witness ==
    /\ built.state = "derived"
    /\ given.p = "temp" \o given.q
    /\ built.realKey[1] = "ratelimit:{temp" \o given.q \o "}"

Path429(r)     == req[r].status = 429 /\ req[r].ended
PathHandler(r) == req[r].handlerCalls >= 1
PathNext(r)    == req[r].redisError /\ req[r].nexts = <<"">>

\* C21: once the get callback has run a request is on exactly one of the
\* three paths (429 sent and ended, handler invoked, next() after a read
\* error); the wrapper calls next at most once, and never after a 429.
C21_OnePath ==
    \A r \in Requests :
        /\ Gated(r) =>
              /\ Path429(r) \/ PathHandler(r) \/ PathNext(r)
              /\ ~(Path429(r) /\ PathHandler(r))
              /\ ~(Path429(r) /\ PathNext(r))
              /\ ~(PathHandler(r) /\ PathNext(r))
              /\ req[r].handlerCalls <= 1
        /\ ~Gated(r) => ~Path429(r) /\ ~PathHandler(r) /\ ~PathNext(r)
        /\ Len(req[r].nexts) <= 1
        /\ Path429(r) => req[r].nexts = <<>>
        /\ (PathHandler(r) /\ Done(r))
              => req[r].nexts = IF req[r].throws = "none" THEN <<>>
                                ELSE <<req[r].throws>>

\* one request went through the handler and its tally to next(error), the
\* other was sent a 429 without next and without the handler
C21_Witness ==
    \E r, q \in Requests :
        /\ req[r].key = req[q].key
        /\ PathHandler(r) /\ Done(r) /\ req[r].multis = 1
        /\ req[r].nexts = <<req[r].throws>>
        /\ Path429(q) /\ Done(q) /\ req[q].nexts = <<>> /\ req[q].handlerCalls = 0

\* C22: a primary key that exists holds a value >= 1 in every state, so a
\* GET that succeeds is answered null for an absent key and otherwise the
\* stored value, never 0; while the key has not expired yet that value is
\* the number of batches executed on the partition.
C22_NeverZero ==
    /\ [](\A k \in PartitionKeys :
             store[realKey(k)].exists => store[realKey(k)].val >= 1)
    /\ [][\A r \in Requests :
             (req[r].pc = "get" /\ StepOf(r) /\ ~req'[r].redisError) =>
                 LET k == req[r].key
                     seen == IF req'[r].results = Null THEN 0
                             ELSE parseInt(req'[r].results)
                 IN  /\ req'[r].results = Null <=> ~store[realKey(k)].exists
                     /\ req'[r].results # Null =>
                            seen >= 1 /\ seen = store[realKey(k)].val
                     /\ k \notin expired => seen = Cardinality(Counted(k))]_vars

\* one request read null and was tallied, a later one read "1"
C22_Witness ==
    \E r, q \in Requests :
        /\ req[r].key = req[q].key /\ req[r].key \notin expired
        /\ req[r].results = Null /\ r \in Counted(req[r].key)
        /\ Gated(q) /\ ~req[q].redisError /\ req[q].results = <<"1">>
        /\ Observed(q) = 1

\* C23: while nothing but the batches and expiry writes to the store, the
\* INCR of a batch finds the primary key with an expiry: a key the batch
\* creates comes out at value 1 with TTL = window, a key it finds keeps its
\* TTL, the TTL reply is never -1 and no EXPIRE is ever sent.
C23_IncrNeverCreates ==
    /\ [](~foreign =>
             /\ \A k \in PartitionKeys :
                    store[realKey(k)].exists => store[realKey(k)].ttl \in 1..opts.window
             /\ \A r \in Requests :
                    /\ (Done(r) /\ req[r].multis > 0 /\ ~req[r].execError)
                           => req[r].ttlReply \in 1..opts.window
                    /\ req[r].expires = 0 /\ req[r].expirePc = "none")
    /\ [][\A k \in PartitionKeys :
             (BatchOn(k) /\ ~foreign) =>
                 LET p == store[realKey(k)]
                     n == store'[realKey(k)]
                 IN  /\ n.exists
                     /\ p.exists => n.ttl = p.ttl
                     /\ ~p.exists => n.ttl = opts.window /\ n.val = 1]_vars

\* with no foreign write one batch created the key and a second one found
\* it: both TTL replies are the key's expiry and neither request sent an
\* EXPIRE
C23_Witness ==
    \E r, q \in Requests :
        /\ r # q /\ req[r].key = req[q].key /\ ~foreign
        /\ {r, q} \subseteq Counted(req[r].key)
        /\ store[realKey(req[r].key)].exists /\ store[realKey(req[r].key)].val = 2
        /\ req[r].ttlReply = opts.window /\ req[q].ttlReply >= 1
        /\ req[r].expirePc = "none" /\ req[q].expirePc = "none"
        /\ req[r].nexts = <<req[r].throws>> /\ req[q].nexts = <<req[q].throws>>

====
